---- MODULE Spec2Model ----
(***************************************************************************)
(* Model of project/scripts/download_images.py: the coordinator            *)
(* download_dataset (filters, joins, session header, worker pool) and the  *)
(* per-item task download_image with the two ledger appends write_log and  *)
(* write_description.                                                      *)
(*                                                                         *)
(* Strings are TLA+ strings; a missing pandas value is the string NaN, a   *)
(* Python None is the string NULL.  A DataFrame is a sequence of rows, a   *)
(* row a function from column names to values, so that a column a merge    *)
(* never added is absent from the row's DOMAIN.                            *)
(***************************************************************************)
EXTENDS Integers, Sequences, FiniteSets, TLC

VARIABLES
    csv,               \* the four input tables on disk
    args,              \* the arguments of download_dataset
    run,               \* "first" or "second" call of download_dataset
    pc,                \* the coordinator's position in download_dataset
    data,              \* the coordinator's DataFrame `data`
    tpc,               \* per submitted task: position in download_image
    file_exists,       \* per task: the local file_exists of write_description
    future,            \* per task: "pending", "result" or "exception"
    description_lock,  \* 0 when free, else the task holding it
    log,               \* download_log.txt, a sequence of lines
    description,       \* description.csv: [exists, records]
    files              \* {uuid}.jpg files of the save folder

vars == <<csv, args, run, pc, data, tpc, file_exists, future,
          description_lock, log, description, files>>

(***************************************************************************)
(* Bounds of the model.                                                    *)
(***************************************************************************)
NumImages == 3      \* rows of published_images.csv in the download runs
NumThreads == 2     \* largest max_threads tried
NumObjects == 2     \* rows of objects.csv in the filter runs
RerunImages == 1    \* rows of published_images.csv in the two-run scenario

NaN == "NaN"
NULL == "NULL"

Uuid(i) == "u" \o ToString(i)
Url(i) == "http://iiif/" \o ToString(i)

(***************************************************************************)
(* Python and pandas helpers.                                              *)
(***************************************************************************)
\* Truth value of an argument that is None or a list.
Truthy(l) == l # NULL /\ Len(l) > 0

\* Series.isin(values)
isin(v, values) == \E i \in 1..Len(values) : values[i] = v

\* separator.join(parts)
RECURSIVE Join(_, _)
Join(parts, sep) ==
    IF Len(parts) = 0 THEN ""
    ELSE IF Len(parts) = 1 THEN parts[1]
    ELSE parts[1] \o sep \o Join(Tail(parts), sep)

\* Series.get(key, default): the default only when the key is not a column.
Get(row, key, default) == IF key \in DOMAIN row THEN row[key] ELSE default

\* DataFrame.dropna(subset=[col])
dropna(df, col) == SelectSeq(df, LAMBDA r : r[col] # NaN)

\* Concatenation of a sequence of sequences.
RECURSIVE Flatten(_)
Flatten(ss) == IF Len(ss) = 0 THEN <<>> ELSE Head(ss) \o Flatten(Tail(ss))

\* left.merge(right, left_on=lkey, right_on="objectid", how="left"), where
\* `cols` are the payload columns of right: a left row is repeated once per
\* matching right row, and kept once with NaN payload when nothing matches.
MergeRow(row, right, lkey, cols) ==
    LET hits == SelectSeq(right, LAMBDA o : o.objectid = row[lkey])
    IN IF Len(hits) = 0
       THEN << [c \in cols |-> NaN] @@ row >>
       ELSE [i \in 1..Len(hits) |-> [c \in cols |-> hits[i][c]] @@ row]

MergeLeft(left, right, lkey, cols) ==
    Flatten([i \in 1..Len(left) |-> MergeRow(left[i], right, lkey, cols)])

(***************************************************************************)
(* str.contains(pat, case=False, na=False): a regular-expression search.   *)
(* The pattern language modelled is literals, the wildcard "." and the     *)
(* alternation "|" that the join of the names introduces.                  *)
(***************************************************************************)
Lower(c) ==
    CASE c = "A" -> "a"
      [] c = "B" -> "b"
      [] c = "C" -> "c"
      [] OTHER -> c

Char(s, i) == SubSeq(s, i, i)

\* Positions that delimit the alternatives of a pattern.
Bars(pat) == {0, Len(pat) + 1} \cup {i \in 1..Len(pat) : Char(pat, i) = "|"}

Alternatives(pat) ==
    { SubSeq(pat, p[1] + 1, p[2] - 1) :
        p \in { q \in Bars(pat) \X Bars(pat) :
                  /\ q[1] < q[2]
                  /\ ~ \E m \in Bars(pat) : q[1] < m /\ m < q[2] } }

AtomMatches(p, c) == p = "." \/ Lower(p) = Lower(c)

MatchesAt(alt, s, k) ==
    /\ k + Len(alt) - 1 <= Len(s)
    /\ \A j \in 1..Len(alt) : AtomMatches(Char(alt, j), Char(s, k + j - 1))

str_contains(s, pat) ==
    /\ s # NaN
    /\ \E alt \in Alternatives(pat) : \E k \in 1..(Len(s) + 1) : MatchesAt(alt, s, k)

(***************************************************************************)
(* filter_by_classification                                                *)
(***************************************************************************)
\* objects[objects['classification'].isin(allowed_classifications)]
KeepAllowed(objects, allowed_classifications) ==
    IF Truthy(allowed_classifications)
    THEN SelectSeq(objects, LAMBDA o : isin(o.classification, allowed_classifications))
    ELSE objects

\* An exclusion that lost its negation.
DropExcludedInverted(objects, excluded_subclassifications) ==
    IF Truthy(excluded_subclassifications)
    THEN SelectSeq(objects, LAMBDA o : isin(o.subclassification, excluded_subclassifications))
    ELSE objects

\* objects[~objects['subclassification'].isin(excluded_subclassifications)]
DropExcluded(objects, excluded_subclassifications) ==
    IF Truthy(excluded_subclassifications)
    THEN SelectSeq(objects, LAMBDA o : ~ isin(o.subclassification, excluded_subclassifications))
    ELSE objects

\* images_df[images_df[col].isin(object_ids)]
ImagesOf(images_df, object_ids) ==
    SelectSeq(images_df, LAMBDA r : r.depictstmsobjectid \in object_ids)

filter_by_classification(images_df, objects, allowed, excluded) ==
    LET kept == DropExcluded(KeepAllowed(objects, allowed), excluded)
        object_ids == { kept[i].objectid : i \in 1..Len(kept) }
    IN ImagesOf(images_df, object_ids)

(***************************************************************************)
(* filter_by_artists                                                       *)
(***************************************************************************)
\* constituents[constituents['preferreddisplayname'].str.contains(...)]
SelectedConstituents(constituents, artist_names) ==
    SelectSeq(constituents,
              LAMBDA c : str_contains(c.preferreddisplayname, Join(artist_names, "|")))

\* objects_constituents[constituentid.isin(ids) & (roletype == 'artist')]
ArtistObjects(objects_constituents, constituent_ids) ==
    SelectSeq(objects_constituents,
              LAMBDA l : l.constituentid \in constituent_ids /\ l.roletype = "artist")

filter_by_artists(images_df, constituents, objects_constituents, artist_names) ==
    IF Truthy(artist_names)
    THEN LET selected == SelectedConstituents(constituents, artist_names)
             constituent_ids == { selected[i].constituentid : i \in 1..Len(selected) }
             artist_objects == ArtistObjects(objects_constituents, constituent_ids)
             object_ids == { artist_objects[i].objectid : i \in 1..Len(artist_objects) }
         IN ImagesOf(images_df, object_ids)
    ELSE images_df

(***************************************************************************)
(* The joins of download_dataset.                                          *)
(***************************************************************************)
ObjectColumns == {"objectid", "title", "displaydate", "classification", "medium"}

\* objects_constituents[roletype == 'artist'].merge(constituents, on='constituentid')
ArtistLinks(constituents, objects_constituents) ==
    LET links == SelectSeq(objects_constituents, LAMBDA l : l.roletype = "artist")
        NamesOf(l) ==
            LET cs == SelectSeq(constituents, LAMBDA c : c.constituentid = l.constituentid)
            IN [i \in 1..Len(cs) |->
                  [objectid |-> l.objectid,
                   preferreddisplayname |-> cs[i].preferreddisplayname]]
    IN Flatten([i \in 1..Len(links) |-> NamesOf(links[i])])

\* Object ids in increasing order, as groupby orders its keys.
RECURSIVE Sorted(_)
Sorted(S) ==
    IF S = {} THEN <<>>
    ELSE LET m == CHOOSE x \in S : \A y \in S : x <= y
         IN <<m>> \o Sorted(S \ {m})

\* A join against the artist links themselves, one row per link.
ArtistsUngrouped(artists) ==
    [i \in 1..Len(artists) |-> [objectid |-> artists[i].objectid,
                                artist |-> artists[i].preferreddisplayname]]

\* artists.groupby('objectid')['preferreddisplayname'].apply(', '.join)
ArtistsGrouped(artists) ==
    LET keys == Sorted({ artists[i].objectid : i \in 1..Len(artists) })
        NamesFor(k) ==
            LET rows == SelectSeq(artists, LAMBDA a : a.objectid = k)
            IN [i \in 1..Len(rows) |-> rows[i].preferreddisplayname]
    IN [i \in 1..Len(keys) |-> [objectid |-> keys[i],
                                artist |-> Join(NamesFor(keys[i]), ", ")]]

\* The second merge meets the objectid column the first one added: pandas
\* renames the left one objectid_x and the right one objectid_y.
RenameKey(row) ==
    IF "objectid" \in DOMAIN row
    THEN [c \in (DOMAIN row \ {"objectid"}) \cup {"objectid_x"} |->
            IF c = "objectid_x" THEN row["objectid"] ELSE row[c]]
    ELSE row

MergeArtistRow(row, grouped) ==
    LET hits == SelectSeq(grouped, LAMBDA g : g.objectid = row.depictstmsobjectid)
        key == IF "objectid" \in DOMAIN row THEN "objectid_y" ELSE "objectid"
        Add(id, artist) ==
            [c \in {key, "artist"} |-> IF c = "artist" THEN artist ELSE id] @@ RenameKey(row)
    IN IF Len(hits) = 0
       THEN << Add(NaN, NaN) >>
       ELSE [i \in 1..Len(hits) |-> Add(hits[i].objectid, hits[i].artist)]

(***************************************************************************)
(* The ledger: download_log.txt and description.csv.                       *)
(***************************************************************************)
\* A line of download_log.txt.  `run` and `task` are not part of the text:
\* they record which call of download_dataset and which task appended it
\* (task 0 is the coordinator).
Line(kind, file_name, task) ==
    [kind |-> kind, file_name |-> file_name, run |-> run, task |-> task]

\* write_log(message): the append happens under log_lock, in one step.
write_log(l, line) == Append(l, line)

Given(path) == path # NULL

\* The write_log calls that open a session, in order.
SessionLines ==
    << Line("RULE", "", 0), Line("SESSION", "", 0) >>
    \o (IF Truthy(args.artist_names) THEN << Line("ARTISTS", "", 0) >> ELSE <<>>)
    \o (IF Truthy(args.allowed_classifications) THEN << Line("ALLOWED", "", 0) >> ELSE <<>>)
    \o (IF Truthy(args.excluded_subclassifications) THEN << Line("EXCLUDED", "", 0) >> ELSE <<>>)
    \o << Line("RULE", "", 0) >>

NoTasks ==
    /\ tpc = <<>>
    /\ file_exists = <<>>
    /\ future = <<>>

PoolIdle == UNCHANGED <<tpc, file_exists, future, description_lock>>

(***************************************************************************)
(* download_dataset, up to the candidate list.                             *)
(***************************************************************************)
\* A session that keeps the description file of the session before.
KeepOldDescription ==
    /\ pc = "start"
    /\ description' = description
    /\ pc' = "read"
    /\ PoolIdle
    /\ UNCHANGED <<csv, args, run, data, log, files>>

\* if os.path.exists(description_file): os.remove(description_file)
RemoveOldDescription ==
    /\ pc = "start"
    /\ description' = [exists |-> FALSE, records |-> <<>>]
    /\ pc' = "read"
    /\ PoolIdle
    /\ UNCHANGED <<csv, args, run, data, log, files>>

\* data = pd.read_csv(images_path); data = data.dropna(subset=["iiifurl"])
ReadImages ==
    /\ pc = "read"
    /\ data' = dropna(csv.images, "iiifurl")
    /\ pc' = "classification"
    /\ PoolIdle
    /\ UNCHANGED <<csv, args, run, log, description, files>>

ClassificationRequested ==
    /\ Given(args.objects_path)
    /\ Truthy(args.allowed_classifications) \/ Truthy(args.excluded_subclassifications)

ClassificationStage ==
    /\ pc = "classification"
    /\ IF ClassificationRequested
       THEN /\ data' = filter_by_classification(data, csv.objects,
                           args.allowed_classifications, args.excluded_subclassifications)
            /\ pc' = IF Len(data') = 0 THEN "returned_classification" ELSE "artists"
       ELSE /\ data' = data
            /\ pc' = "artists"
    /\ PoolIdle
    /\ UNCHANGED <<csv, args, run, log, description, files>>

ArtistsRequested ==
    /\ Truthy(args.artist_names)
    /\ Given(args.constituents_path)
    /\ Given(args.objects_constituents_path)

ArtistsStage ==
    /\ pc = "artists"
    /\ IF ArtistsRequested
       THEN /\ data' = filter_by_artists(data, csv.constituents,
                           csv.objects_constituents, args.artist_names)
            /\ pc' = IF Len(data') = 0 THEN "returned_artists" ELSE "merge_objects"
       ELSE /\ data' = data
            /\ pc' = "merge_objects"
    /\ PoolIdle
    /\ UNCHANGED <<csv, args, run, log, description, files>>

MergeObjects ==
    /\ pc = "merge_objects"
    /\ data' = IF Given(args.objects_path)
               THEN MergeLeft(data, csv.objects, "depictstmsobjectid", ObjectColumns)
               ELSE data
    /\ pc' = "merge_artists"
    /\ PoolIdle
    /\ UNCHANGED <<csv, args, run, log, description, files>>

MergeArtists ==
    /\ pc = "merge_artists"
    /\ data' = IF Given(args.constituents_path) /\ Given(args.objects_constituents_path)
               THEN LET grouped == ArtistsGrouped(
                                       ArtistLinks(csv.constituents, csv.objects_constituents))
                    IN Flatten([i \in 1..Len(data) |-> MergeArtistRow(data[i], grouped)])
               ELSE data
    /\ pc' = "header"
    /\ PoolIdle
    /\ UNCHANGED <<csv, args, run, log, description, files>>

BuildNext ==
    \/ RemoveOldDescription
    \/ ReadImages
    \/ ClassificationStage
    \/ ArtistsStage
    \/ MergeObjects
    \/ MergeArtists

(***************************************************************************)
(* Inputs.                                                                 *)
(***************************************************************************)
ImageRow(i, objectid, url) ==
    [uuid |-> Uuid(i), depictstmsobjectid |-> objectid, iiifurl |-> url]

ObjectRow(i, classification, subclassification) ==
    [objectid |-> i, title |-> "T" \o ToString(i), displaydate |-> "1900",
     classification |-> classification, subclassification |-> subclassification,
     medium |-> "oil"]

NoArgs ==
    [objects_path |-> NULL, constituents_path |-> NULL,
     objects_constituents_path |-> NULL, artist_names |-> NULL,
     allowed_classifications |-> NULL, excluded_subclassifications |-> NULL,
     max_threads |-> 1]

NoTables == [images |-> <<>>, objects |-> <<>>, constituents |-> <<>>,
             objects_constituents |-> <<>>]

\* State of the process and of the save folder before the first call.
Fresh ==
    /\ run = "first"
    /\ pc = "start"
    /\ data = <<>>
    /\ NoTasks
    /\ description_lock = 0
    /\ log = <<>>
    /\ description = [exists |-> FALSE, records |-> <<>>]
    /\ files = {}

\* One image per object, one image of an object objects.csv does not hold,
\* and one row without iiifurl.
FilterImages ==
    [i \in 1..(NumObjects + 2) |->
        IF i <= NumObjects + 1 THEN ImageRow(i, i, Url(i)) ELSE ImageRow(i, 1, NaN)]

Classifications == {"Painting", "Print", NaN}
Subclassifications == {"Oil", "Drawing", NaN}

ClassInit ==
    /\ Fresh
    /\ \E cls \in [1..NumObjects -> Classifications],
          sub \in [1..NumObjects -> Subclassifications] :
          csv = [NoTables EXCEPT
                   !.images = FilterImages,
                   !.objects = [i \in 1..NumObjects |-> ObjectRow(i, cls[i], sub[i])]]
    /\ \E path \in {NULL, "objects.csv"},
          allowed \in {NULL, <<>>, <<"Painting">>, <<"Painting", "Print">>},
          excluded \in {NULL, <<>>, <<"Drawing">>} :
          args = [NoArgs EXCEPT
                    !.objects_path = path,
                    !.allowed_classifications = allowed,
                    !.excluded_subclassifications = excluded]

ClassSpec == ClassInit /\ [][BuildNext]_vars

ConstituentRow(i, name) == [constituentid |-> i, preferreddisplayname |-> name]

LinkRow(objectid, constituentid, roletype) ==
    [objectid |-> objectid, constituentid |-> constituentid, roletype |-> roletype]

DisplayNames == {"Ab", "cB", "a.b"}

NameLists == {NULL, <<>>, <<"b">>, <<"AB">>, <<"a.">>, <<".">>, <<"c", "ab">>}

\* The link rows one object can have.
LinksOf(o) ==
    { <<>>,
      << LinkRow(o, 1, "artist") >>,
      << LinkRow(o, 2, "artist") >>,
      << LinkRow(o, 1, "donor") >>,
      << LinkRow(o, 1, "artist"), LinkRow(o, 2, "artist") >> }

ArtistInit ==
    /\ Fresh
    /\ \E n1 \in DisplayNames, n2 \in DisplayNames,
          links \in [1..NumObjects -> UNION { LinksOf(o) : o \in 1..NumObjects }] :
          /\ \A o \in 1..NumObjects : links[o] \in LinksOf(o)
          /\ csv = [NoTables EXCEPT
                      !.images = FilterImages,
                      !.constituents = << ConstituentRow(1, n1), ConstituentRow(2, n2) >>,
                      !.objects_constituents = Flatten(links)]
    /\ \E path \in {NULL, "given"}, names \in NameLists :
          args = [NoArgs EXCEPT
                    !.constituents_path = path,
                    !.objects_constituents_path = path,
                    !.artist_names = names]

ArtistSpec == ArtistInit /\ [][BuildNext]_vars

\* Inputs of the joins: each object present in objects.csv or not (object
\* ids are unique), any link rows per object, metadata paths given or not.
JoinInit ==
    /\ Fresh
    /\ \E present \in [1..NumObjects -> BOOLEAN],
          links \in [1..NumObjects -> UNION { LinksOf(o) : o \in 1..NumObjects }] :
          /\ \A o \in 1..NumObjects : links[o] \in LinksOf(o)
          /\ csv = [images |-> FilterImages,
                    objects |-> SelectSeq([i \in 1..NumObjects |-> ObjectRow(i, "Painting", "Oil")],
                                          LAMBDA o : present[o.objectid]),
                    constituents |-> << ConstituentRow(1, "Ab"), ConstituentRow(2, "cB") >>,
                    objects_constituents |-> Flatten(links)]
    /\ \E objects_path \in {NULL, "objects.csv"}, path \in {NULL, "given"} :
          args = [NoArgs EXCEPT
                    !.objects_path = objects_path,
                    !.constituents_path = path,
                    !.objects_constituents_path = path]

JoinSpec == JoinInit /\ [][BuildNext]_vars

(***************************************************************************)
(* download_dataset: session header and worker pool.                       *)
(***************************************************************************)
\* write_log("=" * 60) ... write_log("=" * 60): a write that raises ends the
\* call with the lines before it appended.
SessionHeader ==
    /\ pc = "header"
    /\ \/ /\ log' = log \o SessionLines
          /\ pc' = "submit"
       \/ \E k \in 0..(Len(SessionLines) - 1) :
             /\ log' = log \o SubSeq(SessionLines, 1, k)
             /\ pc' = "raised"
    /\ PoolIdle
    /\ UNCHANGED <<csv, args, run, data, description, files>>

\* futures = [executor.submit(download_image, row) for _, row in data.iterrows()]
Submit ==
    /\ pc = "submit"
    /\ tpc' = [t \in 1..Len(data) |-> "queued"]
    /\ file_exists' = [t \in 1..Len(data) |-> FALSE]
    /\ future' = [t \in 1..Len(data) |-> "pending"]
    /\ pc' = "pool"
    /\ UNCHANGED <<csv, args, run, data, description_lock, log, description, files>>

Tasks == DOMAIN tpc

InFlight == { t \in Tasks : tpc[t] \notin {"queued", "done"} }

\* A pool that starts a thread for every submitted item.
IdleWorkerUnbounded == TRUE

\* ThreadPoolExecutor(max_workers=max_threads): a queued item is taken only
\* by a thread of the pool that runs no other item.
IdleWorker == Cardinality(InFlight) < args.max_threads

\* A loop body that calls future.result().
PropagatesResult(t) == future[t] = "exception"

\* The as_completed loop body is `pass`: no future's result() is called, so
\* an exception stored in a future is never raised in the coordinator.
Propagates(t) == FALSE

\* Leaving the `with` block: shutdown(wait=True) returns when every task is
\* done; then "Download complete!" is printed.
ExitPool ==
    /\ pc = "pool"
    /\ \A t \in Tasks : tpc[t] = "done"
    /\ pc' = IF \E t \in Tasks : Propagates(t) THEN "raised" ELSE "complete"
    /\ PoolIdle
    /\ UNCHANGED <<csv, args, run, data, log, description, files>>

(***************************************************************************)
(* download_image(row), one action per blocking operation.                 *)
(***************************************************************************)
FileName(t) == data[t].uuid \o ".jpg"

TaskIdle == UNCHANGED <<csv, args, run, pc, data>>

\* The work queue is first in, first out.
Start(t) ==
    /\ tpc[t] = "queued"
    /\ \A u \in Tasks : u < t => tpc[u] # "queued"
    /\ IdleWorker
    /\ tpc' = [tpc EXCEPT ![t] = "get"]
    /\ TaskIdle
    /\ UNCHANGED <<file_exists, future, description_lock, log, description, files>>

WriteFile(fs, name, state, t) ==
    { f \in fs : f.file_name # name }
    \cup { [file_name |-> name, state |-> state, run |-> run, task |-> t] }

\* response = requests.get(image_url, stream=True, timeout=15): the request
\* raises, or answers with a status that is 200 or not.
Request(t) ==
    /\ tpc[t] = "get"
    /\ \E next \in {"save", "log_failure", "except"} : tpc' = [tpc EXCEPT ![t] = next]
    /\ TaskIdle
    /\ UNCHANGED <<file_exists, future, description_lock, log, description, files>>

\* with open(file_path, "wb") as file: for chunk in response.iter_content(1024): ...
\* open may raise before the file is touched; afterwards the file exists,
\* truncated, and the streamed body may raise before it is complete.
Save(t) ==
    /\ tpc[t] = "save"
    /\ \/ /\ files' = WriteFile(files, FileName(t), "complete", t)
          /\ tpc' = [tpc EXCEPT ![t] = "log_success"]
       \/ /\ files' = WriteFile(files, FileName(t), "partial", t)
          /\ tpc' = [tpc EXCEPT ![t] = "except"]
       \/ /\ files' = files
          /\ tpc' = [tpc EXCEPT ![t] = "except"]
    /\ TaskIdle
    /\ UNCHANGED <<file_exists, future, description_lock, log, description>>

\* write_log(f"SUCCESS: {file_name} | URL: {image_url}")
LogSuccess(t) ==
    /\ tpc[t] = "log_success"
    /\ \/ /\ log' = write_log(log, Line("SUCCESS", FileName(t), t))
          /\ tpc' = [tpc EXCEPT ![t] = "describe"]
       \/ /\ log' = log
          /\ tpc' = [tpc EXCEPT ![t] = "except"]
    /\ TaskIdle
    /\ UNCHANGED <<file_exists, future, description_lock, description, files>>

\* The dictionary download_image builds for write_description.
description_data(row) ==
    [uuid |-> row.uuid,
     filename |-> row.uuid \o ".jpg",
     artist |-> Get(row, "artist", "Unknown"),
     title |-> Get(row, "title", "Untitled"),
     date |-> Get(row, "displaydate", "Unknown"),
     classification |-> Get(row, "classification", "Unknown"),
     medium |-> Get(row, "medium", "Unknown")]

DescriptionColumns ==
    {"uuid", "filename", "artist", "title", "date", "classification", "medium"}

\* to_csv writes a missing value as the empty string.
CsvField(v) == IF v = NaN THEN "" ELSE v

\* The records of description.csv.  `kind`, `run` and `task` are not part of
\* the text: they tell the header from a row and record who appended it.
HeaderRecord(t) ==
    [c \in DescriptionColumns |-> c] @@ [kind |-> "header", run |-> run, task |-> t]

RowRecord(d, t) ==
    [c \in DescriptionColumns |-> CsvField(d[c])] @@ [kind |-> "row", run |-> run, task |-> t]

\* An append that does not take the lock.
LockNotTaken == TRUE

\* with description_lock:
LockFree == description_lock = 0

AcquireDescriptionLock(t) ==
    /\ tpc[t] = "describe"
    /\ LockFree
    /\ description_lock' = t
    /\ tpc' = [tpc EXCEPT ![t] = "exists"]
    /\ TaskIdle
    /\ UNCHANGED <<file_exists, future, log, description, files>>

\* file_exists = os.path.exists(description_file)
CheckExists(t) ==
    /\ tpc[t] = "exists"
    /\ file_exists' = [file_exists EXCEPT ![t] = description.exists]
    /\ tpc' = [tpc EXCEPT ![t] = "to_csv"]
    /\ TaskIdle
    /\ UNCHANGED <<future, description_lock, log, description, files>>

\* df.to_csv(description_file, mode='a', header=not file_exists, index=False)
to_csv(d, header, t) ==
    [exists |-> TRUE,
     records |-> description.records
                 \o (IF header THEN << HeaderRecord(t) >> ELSE <<>>)
                 \o << RowRecord(d, t) >>]

\* The append and the release of the lock; an append that raises leaves the
\* file as it was, releases the lock and is caught by download_image.
ToCsv(t) ==
    /\ tpc[t] = "to_csv"
    /\ \/ /\ description' = to_csv(description_data(data[t]), ~ file_exists[t], t)
          /\ tpc' = [tpc EXCEPT ![t] = "done"]
          /\ future' = [future EXCEPT ![t] = "result"]
       \/ /\ description' = description
          /\ tpc' = [tpc EXCEPT ![t] = "except"]
          /\ future' = future
    /\ file_exists' = [file_exists EXCEPT ![t] = FALSE]
    /\ description_lock' = 0
    /\ TaskIdle
    /\ UNCHANGED <<log, files>>

\* write_log(f"FAILURE (HTTP {response.status_code}): ...")
LogFailure(t) ==
    /\ tpc[t] = "log_failure"
    /\ \/ /\ log' = write_log(log, Line("FAILURE", FileName(t), t))
          /\ tpc' = [tpc EXCEPT ![t] = "done"]
          /\ future' = [future EXCEPT ![t] = "result"]
       \/ /\ log' = log
          /\ tpc' = [tpc EXCEPT ![t] = "except"]
          /\ future' = future
    /\ TaskIdle
    /\ UNCHANGED <<file_exists, description_lock, description, files>>

\* except Exception as e: write_log(f"ERROR: ...").  When this write raises
\* too, the exception leaves download_image and is stored in the future.
Except(t) ==
    /\ tpc[t] = "except"
    /\ \/ /\ log' = write_log(log, Line("ERROR", FileName(t), t))
          /\ future' = [future EXCEPT ![t] = "result"]
       \/ /\ log' = log
          /\ future' = [future EXCEPT ![t] = "exception"]
    /\ tpc' = [tpc EXCEPT ![t] = "done"]
    /\ TaskIdle
    /\ UNCHANGED <<file_exists, description_lock, description, files>>

PoolNext ==
    \/ SessionHeader
    \/ Submit
    \/ ExitPool
    \/ \E t \in Tasks : Start(t)
    \/ \E t \in Tasks : Request(t)
    \/ \E t \in Tasks : Save(t)
    \/ \E t \in Tasks : LogSuccess(t)
    \/ \E t \in Tasks : AcquireDescriptionLock(t)
    \/ \E t \in Tasks : CheckExists(t)
    \/ \E t \in Tasks : ToCsv(t)
    \/ \E t \in Tasks : LogFailure(t)
    \/ \E t \in Tasks : Except(t)

Next == BuildNext \/ PoolNext

(***************************************************************************)
(* The download runs: no metadata at all, or metadata in which the last    *)
(* image has no object, the first object two artists and the others none.  *)
(***************************************************************************)
PlainImages(n) == [i \in 1..n |-> ImageRow(i, i, Url(i))]

EnrichedTables(n) ==
    [images |-> PlainImages(n),
     objects |-> [i \in 1..(n - 1) |-> ObjectRow(i, "Painting", "Oil")],
     constituents |-> << ConstituentRow(1, "Ab"), ConstituentRow(2, "cB") >>,
     objects_constituents |->
         << LinkRow(1, 1, "artist"), LinkRow(1, 2, "artist"), LinkRow(2, 1, "donor") >>]

EnrichedArgs ==
    [NoArgs EXCEPT !.objects_path = "objects.csv",
                   !.constituents_path = "constituents.csv",
                   !.objects_constituents_path = "objects_constituents.csv"]

Init ==
    /\ Fresh
    /\ csv = EnrichedTables(NumImages)
    /\ \E threads \in {1, NumThreads} : args = [EnrichedArgs EXCEPT !.max_threads = threads]

Spec == Init /\ [][Next]_vars

(***************************************************************************)
(* Two consecutive calls of download_dataset with the same inputs.         *)
(***************************************************************************)
Finished == {"complete", "returned_classification", "returned_artists", "raised"}

Rerun ==
    /\ run = "first"
    /\ pc \in Finished
    /\ run' = "second"
    /\ pc' = "start"
    /\ data' = <<>>
    /\ tpc' = <<>>
    /\ file_exists' = <<>>
    /\ future' = <<>>
    /\ UNCHANGED <<csv, args, description_lock, log, description, files>>

\* No metadata at all; or an artist filter that matches no constituent; or
\* a classification filter that keeps no object.
RerunInit ==
    /\ Fresh
    /\ \E threads \in {1, NumThreads} :
          \/ /\ csv = [NoTables EXCEPT !.images = PlainImages(RerunImages)]
             /\ args = [NoArgs EXCEPT !.max_threads = threads]
          \/ /\ csv = EnrichedTables(RerunImages + 1)
             /\ args = [EnrichedArgs EXCEPT !.max_threads = threads,
                                            !.artist_names = <<"zz">>]
          \/ /\ csv = EnrichedTables(RerunImages + 1)
             /\ args = [EnrichedArgs EXCEPT !.max_threads = threads,
                                            !.allowed_classifications = <<"Print">>]

RerunSpec == RerunInit /\ [][Next \/ Rerun]_vars

(***************************************************************************)
(* Properties.                                                             *)
(***************************************************************************)
OutcomeKinds == {"SUCCESS", "FAILURE", "ERROR"}

\* Positions of the outcome lines task t appended during the current call.
Outcomes(t) ==
    { i \in 1..Len(log) :
        log[i].run = run /\ log[i].task = t /\ log[i].kind \in OutcomeKinds }

SuccessLines ==
    { i \in 1..Len(log) : log[i].run = run /\ log[i].kind = "SUCCESS" }

Records == description.records

DataRows == { i \in 1..Len(Records) : Records[i].kind = "row" }

Headers == { i \in 1..Len(Records) : Records[i].kind = "header" }

\* C1: when download_dataset finishes, description.csv has as many data rows
\* as SUCCESS lines were appended during the run, every row has a SUCCESS
\* line for its uuid and every SUCCESS line a row.
C1_RowsMatchSuccesses ==
    pc = "complete" =>
        /\ Cardinality(DataRows) = Cardinality(SuccessLines)
        /\ \A i \in DataRows : \E j \in SuccessLines :
              log[j].file_name = Records[i].filename
        /\ \A j \in SuccessLines : \E i \in DataRows :
              Records[i].filename = log[j].file_name

\* C2: at the end of a run every candidate has exactly one outcome line
\* (SUCCESS, FAILURE or ERROR) in the log, never none and never two.
C2_ExactlyOneOutcome ==
    pc = "complete" => \A t \in Tasks : Cardinality(Outcomes(t)) = 1

\* C3: at every moment at most max_threads tasks are started and not yet
\* finished, although all tasks are submitted up front.
C3_BoundedInFlight == Cardinality(InFlight) <= args.max_threads

\* C3 witness: more candidates than threads, every thread busy with an item
\* and an item still queued although it was submitted.
C3_Witness ==
    /\ pc = "pool"
    /\ Len(data) > args.max_threads
    /\ args.max_threads > 1
    /\ Cardinality(InFlight) = args.max_threads
    /\ \E t \in Tasks : tpc[t] = "queued"

\* Tasks inside the exclusive section of the description store.
InDescriptionSection == { t \in Tasks : tpc[t] \in {"exists", "to_csv"} }

\* A step of task t.
TaskStep(t) ==
    \/ Start(t)
    \/ Request(t)
    \/ Save(t)
    \/ LogSuccess(t)
    \/ AcquireDescriptionLock(t)
    \/ CheckExists(t)
    \/ ToCsv(t)
    \/ LogFailure(t)
    \/ Except(t)

\* An unfinished task that cannot step waits only for a thread that is busy
\* with a running task, or for the lock held by a task inside the section.
WaitsForLiveTask(t) ==
    \/ /\ tpc[t] = "queued"
       /\ \/ Cardinality(InFlight) >= args.max_threads
          \/ \E u \in Tasks : u < t /\ tpc[u] = "queued"
    \/ /\ tpc[t] = "describe"
       /\ description_lock \in InDescriptionSection

\* C5: once the pool has started, whatever fails inside the tasks (a
\* non-200 status, an exception of the request, of the image write or of a
\* ledger append), no exception reaches the coordinator, no task is kept
\* from running to its end by another one's failure, and the coordinator
\* can always go on to the completion report, reached with every task done.
C5_FailuresContained ==
    /\ Tasks # {} => pc \in {"pool", "complete"}
    /\ pc = "pool" =>
          /\ ENABLED PoolNext
          /\ \A t \in Tasks :
                tpc[t] # "done" => (ENABLED TaskStep(t)) \/ WaitsForLiveTask(t)
    /\ pc = "complete" => \A t \in Tasks : tpc[t] = "done" /\ future[t] # "pending"

\* C5 witness: the run completed although one task ended with an exception
\* stored in its future, one with an ERROR line, and another succeeded.
C5_Witness ==
    /\ pc = "complete"
    /\ \E t \in Tasks : future[t] = "exception"
    /\ \E i \in 1..Len(log) : log[i].kind = "ERROR"
    /\ DataRows # {}

\* Whether task t wrote to its destination file during the current call.
Wrote(t) ==
    \E f \in files : f.run = run /\ f.task = t /\ f.file_name = FileName(t)

\* C6: an item whose outcome is a failure (FAILURE or ERROR line) neither
\* created nor overwrote {uuid}.jpg and appended no description row.
C6_FailureLeavesNoFile ==
    \A t \in Tasks :
        (tpc[t] = "done" /\ \E i \in Outcomes(t) : log[i].kind \in {"FAILURE", "ERROR"})
        => /\ ~ Wrote(t)
           /\ ~ \E i \in DataRows : Records[i].run = run /\ Records[i].task = t

IsSet(row, col) == col \in DOMAIN row /\ row[col] # NaN

OrDefault(row, col, default) == IF IsSet(row, col) THEN row[col] ELSE default

\* C8: every description row carries the candidate's own artist, title,
\* date, classification and medium when set, and otherwise 'Unknown'
\* ('Untitled' for the title), also when a left join left the value unset.
C8_DefaultsSubstituted ==
    \A i \in DataRows :
        LET row == data[Records[i].task]
        IN /\ Records[i].artist = OrDefault(row, "artist", "Unknown")
           /\ Records[i].title = OrDefault(row, "title", "Untitled")
           /\ Records[i].date = OrDefault(row, "displaydate", "Unknown")
           /\ Records[i].classification = OrDefault(row, "classification", "Unknown")
           /\ Records[i].medium = OrDefault(row, "medium", "Unknown")

\* download_dataset returned: it reported completion, or it returned early
\* because a filter left no image.
Returned == {"complete", "returned_classification", "returned_artists"}

SecondReturned == run = "second" /\ pc \in Returned

LinesOfRun(r) == { i \in 1..Len(log) : log[i].run = r }

\* The lines of the first call come before every line of the second one.
FirstRunIsPrefix ==
    \A i \in LinesOfRun("second") : \A j \in LinesOfRun("first") : j < i

OnlySecondRunRecords == \A i \in 1..Len(Records) : Records[i].run = "second"

IsPrefix(a, b) == Len(a) <= Len(b) /\ SubSeq(b, 1, Len(a)) = a

\* C4 as stated: after the second of two calls with the same inputs,
\* description.csv holds only records of the second call, and the log keeps
\* the first call's lines as a prefix and is strictly longer than before.
C4_RerunGrowsLog ==
    SecondReturned =>
        /\ OnlySecondRunRecords
        /\ FirstRunIsPrefix
        /\ LinesOfRun("second") # {}

\* C4 as amended: no step ever changes or removes a line of the log; after
\* the second call description.csv holds only records of the second call,
\* the first call's lines are a prefix of the log, and the log is strictly
\* longer when the second call reached the completion report, while a call
\* that returned early because a filter left no image appended nothing.
C4_RerunAmended ==
    /\ [][IsPrefix(log, log')]_vars
    /\ [](SecondReturned =>
            /\ OnlySecondRunRecords
            /\ FirstRunIsPrefix
            /\ pc = "complete" => LinesOfRun("second") # {}
            /\ pc # "complete" => LinesOfRun("second") = {})

\* C4 witness: both calls completed, the first one had appended a row and a
\* SUCCESS line, and the second one appended a row of its own.
C4_Witness ==
    /\ SecondReturned
    /\ pc = "complete"
    /\ \E i \in LinesOfRun("first") : log[i].kind = "SUCCESS"
    /\ \E i \in LinesOfRun("second") : log[i].kind = "SUCCESS"
    /\ DataRows # {}

\* The object row of an image, when objects.csv holds one.
ObjectsOf(image) ==
    { i \in 1..Len(csv.objects) : csv.objects[i].objectid = image.depictstmsobjectid }

Allowed == args.allowed_classifications

Excluded == args.excluded_subclassifications

\* The classification filter ran and download_dataset is right after it.
AfterClassification ==
    /\ ClassificationRequested
    /\ pc \in {"artists", "returned_classification"}

\* C9 as stated: the filter returns exactly the image rows whose object has
\* its classification in A (any object when A is null) and its
\* subclassification not in E (no exclusion when E is null).
C9_FilterByClassification ==
    AfterClassification =>
        data = SelectSeq(dropna(csv.images, "iiifurl"),
                  LAMBDA r : \E i \in ObjectsOf(r) :
                      /\ Allowed = NULL \/ isin(csv.objects[i].classification, Allowed)
                      /\ Excluded = NULL \/ ~ isin(csv.objects[i].subclassification, Excluded))

IsSubsequence(a, b) ==
    \A i \in 1..Len(a) : \E j \in 1..Len(b) : a[i] = b[j]

\* C9 as amended: the filter returns exactly the image rows whose object has
\* its classification in A (any object when A is null or empty) and its
\* subclassification not in E (no exclusion when E is null); the result is
\* a subset of the result with A alone and holds no image whose object's
\* subclassification is in E.
C9_FilterAmended ==
    AfterClassification =>
        /\ data = SelectSeq(dropna(csv.images, "iiifurl"),
                     LAMBDA r : \E i \in ObjectsOf(r) :
                         /\ \/ Allowed = NULL
                            \/ Len(Allowed) = 0
                            \/ isin(csv.objects[i].classification, Allowed)
                         /\ Excluded = NULL \/ ~ isin(csv.objects[i].subclassification, Excluded))
        /\ IsSubsequence(data, filter_by_classification(dropna(csv.images, "iiifurl"),
                                   csv.objects, Allowed, NULL))
        /\ \A k \in 1..Len(data) : \A i \in ObjectsOf(data[k]) :
              Excluded # NULL => ~ isin(csv.objects[i].subclassification, Excluded)

\* C9 witness: both A and E are given, an image passed the filter and the
\* exclusion removed an image that A alone lets through.
C9_Witness ==
    /\ AfterClassification
    /\ Truthy(Allowed)
    /\ Truthy(Excluded)
    /\ Len(data) > 0
    /\ Len(data) < Len(filter_by_classification(dropna(csv.images, "iiifurl"),
                           csv.objects, Allowed, NULL))

\* The artist filter ran and download_dataset is right after it.
AfterArtists ==
    /\ ArtistsRequested
    /\ pc \in {"merge_objects", "returned_artists"}

\* Whether text contains sub, compared without regard to case.
ContainsIgnoringCase(text, sub) ==
    \E k \in 1..(Len(text) - Len(sub) + 1) :
        \A j \in 1..Len(sub) : Lower(Char(text, k + j - 1)) = Lower(Char(sub, j))

\* C10: for a non-empty list of substrings, filter_by_artists returns exactly
\* the image rows whose object has a link row with roletype 'artist' to a
\* constituent whose preferred display name contains one of the substrings,
\* case-insensitively.
C10_FilterByArtists ==
    AfterArtists =>
        data = SelectSeq(dropna(csv.images, "iiifurl"),
                  LAMBDA r :
                      \E l \in 1..Len(csv.objects_constituents) :
                      \E c \in 1..Len(csv.constituents) :
                      \E n \in 1..Len(args.artist_names) :
                          /\ csv.objects_constituents[l].objectid = r.depictstmsobjectid
                          /\ csv.objects_constituents[l].roletype = "artist"
                          /\ csv.objects_constituents[l].constituentid
                               = csv.constituents[c].constituentid
                          /\ ContainsIgnoringCase(csv.constituents[c].preferreddisplayname,
                                                  args.artist_names[n]))

\* The uuid column of a DataFrame.
UuidsOf(df) == [i \in 1..Len(df) |-> df[i].uuid]

\* The artist links of an object, in link-table order.
ArtistLinksOf(objectid) ==
    SelectSeq(csv.objects_constituents,
              LAMBDA l : l.objectid = objectid /\ l.roletype = "artist")

\* The display names of the artists linked to an object, in link order.
LinkedNames(objectid) ==
    LET links == ArtistLinksOf(objectid)
    IN [k \in 1..Len(links) |->
          (CHOOSE c \in { csv.constituents[n] : n \in 1..Len(csv.constituents) } :
              c.constituentid = links[k].constituentid).preferreddisplayname]

\* C11: the candidate list handed to the worker pool has at most one row per
\* uuid: the joins with the object metadata and with the aggregated artist
\* names keep the image rows one for one, also for an object with several
\* artist links, whose names are folded into one artist field.
C11_OneRowPerUuid ==
    pc = "header" =>
        /\ \A i, j \in 1..Len(data) : data[i].uuid = data[j].uuid => i = j
        /\ UuidsOf(data) = UuidsOf(dropna(csv.images, "iiifurl"))
        /\ \A i \in 1..Len(data) :
              ("artist" \in DOMAIN data[i] /\ Len(ArtistLinksOf(data[i].depictstmsobjectid)) > 0)
              => data[i].artist = Join(LinkedNames(data[i].depictstmsobjectid), ", ")

\* C11 witness: the list is built, an image of an object with two artist
\* links carries both names in one field, and an image got its object's title.
C11_Witness ==
    /\ pc = "header"
    /\ \E i \in 1..Len(data) :
          /\ Len(ArtistLinksOf(data[i].depictstmsobjectid)) = 2
          /\ "artist" \in DOMAIN data[i]
          /\ data[i].artist = "Ab, cB"
          /\ "title" \in DOMAIN data[i]
          /\ data[i].title # NaN

\* Whether task t appended its SUCCESS line / its description row during the
\* current call.
SuccessLogged(t) ==
    \E i \in 1..Len(log) :
        log[i].run = run /\ log[i].task = t /\ log[i].kind = "SUCCESS"

RowAppended(t) ==
    \E i \in DataRows : Records[i].run = run /\ Records[i].task = t

\* C12: the SUCCESS line and the description row of an item are an atomic
\* pair: in no reachable state, during the run or at its end, has one of the
\* two been appended and the other not.
C12_AtomicPair ==
    \A t \in Tasks : SuccessLogged(t) <=> RowAppended(t)

====
